---- MODULE Spec2Model ----
(***************************************************************************)
(* The distributed execution pipeline of codr: gateway sessions            *)
(* (services/websocket/routes.py), the token service                       *)
(* (services/websocket/middleware/jwt_manager.py), the bus (Redis: used    *)
(* token markers, the work list, per-job pub/sub channels), the job store  *)
(* (lib/services/job_service.py) and the workers                           *)
(* (services/worker/worker.py).                                            *)
(***************************************************************************)
EXTENDS Integers, Sequences, FiniteSets, TLC

\* ---- bounds of the model -------------------------------------------------
NumSessions == 2      \* gateway sessions (one accepted socket each)
NumWorkers == 2       \* worker processes
MaxChunks == 1        \* most chunks one run hands to on_output
NumMinted == 2        \* job tokens minted by POST /api/jobs/create
MaxInputs == 2        \* most frames a client sends during the message loop

Range(f) == {f[i] : i \in DOMAIN f}

Sessions == 1 .. NumSessions
Workers == 1 .. NumWorkers

\* Most chunks a run of the program hands to on_output: the programs of the
\* client menu write up to MaxChunks, a "verbose" program one more.
OutputChunks(code) == IF code = "verbose" THEN MaxChunks + 1 ELSE MaxChunks

\* ---- job ids ---------------------------------------------------------------
\* Two uuid4 draws are never equal: the id minted with a token by
\* routes.create_job and the id generated by JobService.create_job for the
\* session that stores a job are different values from one id space.
MintedId(k) == <<"minted", k>>
StoredId(s) == <<"stored", s>>
NoJob == <<"none", 0>>
MintedIds == {MintedId(k) : k \in 1 .. NumMinted}
StoredIds == {StoredId(s) : s \in Sessions}

\* ---- tokens ----------------------------------------------------------------
NoField == "absent"    \* a code or language that is missing or empty

\* JobTokenManager.create_job_token: claims {job_id, exp, jti}; the jti is a
\* fresh uuid per token, so it is determined by the token minted for job_id.
create_job_token(job) ==
    [job_id |-> job, jti |-> job, sig |-> "ok", expired |-> FALSE]

\* The first frame carries no job_token.
NoToken == [job_id |-> NoJob, jti |-> NoJob, sig |-> "absent", expired |-> FALSE]

\* What a client can present: a minted token, a minted token past its exp,
\* or a token whose signature does not verify.
Tokens ==
    {create_job_token(j) : j \in MintedIds}
      \cup {[create_job_token(j) EXCEPT !.expired = TRUE] : j \in {MintedId(1)}}
      \cup {[create_job_token(j) EXCEPT !.sig = "forged"] : j \in {MintedId(1)}}

\* verify_job_token without the comparison of the job_id claim.
verify_job_token_any_job(token, expected_job_id) ==
    IF token.sig # "ok" THEN "invalid"
    ELSE IF token.expired THEN "expired"
    ELSE "ok"

\* JobTokenManager.verify_job_token: jwt.decode checks the signature, then
\* exp; then the job_id claim is compared.  Every failure raises.
verify_job_token(token, expected_job_id) ==
    IF token.sig # "ok" THEN "invalid"
    ELSE IF token.expired THEN "expired"
    ELSE IF token.job_id # expected_job_id THEN "mismatch"
    ELSE "ok"

\* ---- submissions -------------------------------------------------------------
Codes == {NoField, "safe", "blocked", "oversize"}
Languages == {NoField, "python", "cobol"}
MaxCodeLen == 10240

\* Length of the code kinds used here.
CodeLen(code) ==
    CASE code = NoField -> 0
      [] code = "oversize" -> MaxCodeLen + 1
      [] OTHER -> 20

\* executors.EXECUTORS (the tags used here)
EXECUTORS == {"python", "c"}

\* executors.get_supported_languages
get_supported_languages == EXECUTORS

\* executors.get_default_filename
get_default_filename(language) ==
    CASE language = "python" -> "main.py"
      [] language = "c" -> "main.c"
      [] OTHER -> "main.txt"

\* CodeSubmission(code, language, filename): TRUE iff the model validates.
CodeSubmissionValid(code, language, filename) ==
    /\ CodeLen(code) >= 1
    /\ CodeLen(code) <= MaxCodeLen
    /\ language \in get_supported_languages

\* A validator that lets a blocked operation through.
validate_accepts_blocked(code, language) == language = "python"

\* Languages whose source CodeValidator.validate hands to TreeSitterParser.parse
TreeSitterLanguages == {"javascript", "js", "c", "cpp", "c++", "rust"}

\* What a call of CodeValidator.validate does: it returns (True, ""), returns
\* (False, reason), or raises.  PythonASTValidator catches SyntaxError and
\* returns (False, ...); TreeSitterParser.parse raises Exception("Syntax error
\* in code") when the tree has an error node, and validate does not catch it; a
\* language without a validator gets (False, "Unsupported language").
validate_outcome(code, language) ==
    CASE language = "python" ->
            IF code \in {"syntax_error", "blocked"} THEN "rejected" ELSE "valid"
      [] language \in TreeSitterLanguages ->
            IF code = "syntax_error" THEN "raises"
            ELSE IF code = "blocked" THEN "rejected" ELSE "valid"
      [] OTHER -> "rejected"

\* is_valid of CodeValidator.validate: a source using a blocked operation or
\* module is refused, and so is a language without a validator.
validate(code, language) == validate_outcome(code, language) = "valid"

\* The first frames a client can send.
AuthFrames ==
    {[job_id |-> j, job_token |-> t, code |-> "safe", language |-> "python"] :
        j \in MintedIds \cup {NoJob}, t \in Tokens \cup {NoToken}}
SubmissionFrames ==
    {[job_id |-> MintedId(1), job_token |-> create_job_token(MintedId(1)),
      code |-> c, language |-> l] : c \in Codes, l \in Languages}
FirstFrames == AuthFrames \cup SubmissionFrames

NoFrame == [job_id |-> NoJob, job_token |-> NoToken, code |-> NoField, language |-> NoField]

\* ---- frames and messages -----------------------------------------------------
ErrorFrame(msg) == [type |-> "error", message |-> msg]
OutputFrame(k) == [type |-> "output", chunk |-> k]
CompleteFrame(code) == [type |-> "complete", exit_code |-> code]
ExitCodes == {0, 1}

\* The JobQueueEntry pushed by the gateway (queued_at left out): json.dumps of
\* an object with the four fields, so the text on the list is valid JSON.
QueueEntry(job, code, language, filename) ==
    [job_id |-> job, code |-> code, language |-> language, filename |-> filename,
     syntax |-> "json"]
NoEntry == QueueEntry(NoJob, NoField, NoField, NoField)

VARIABLES
    \* gateway sessions: locals of websocket_execute
    pc,                  \* the await the handler is at
    first,               \* how wait_for(receive_json) ended
    data,                \* the first frame
    token_used,          \* what is_token_used returned: "unknown", "yes", "no"
    job_id,              \* the local job_id
    closeCode,           \* code passed to websocket.close, 0 if never called
    delivered,           \* frames sent to the client, in order
    sub,                 \* state of subscription_task
    inbox,               \* messages Redis delivered to the subscription
    active_connections,  \* ConnectionManager.active_connections (its keys)
    \* bus and job store
    used_tokens,         \* jtis with a used_token:{jti} key
    job_queue,           \* codr:job_queue, head (left) first
    store,               \* job:{id} hashes
    seen,                \* what the last get_job of an observer returned
    \* workers
    wpc,                 \* where the worker is
    current_job,         \* the entry being executed
    emitted,             \* chunks the runner handed to on_output in this run
    result,              \* exit code of the run
    publish_tasks,       \* publish_output coroutines submitted, not yet run
    running,             \* self.running
    input_task,          \* state of input_listener for the job in flight
    input_inbox,         \* messages Redis delivered to the input subscription
    input_queue,         \* the asyncio.Queue filled by input_listener
    sync_input_queue,    \* the queue.Queue filled by bridge_input
    pty_written,         \* keystrokes written to the PTY master, in order
    \* environment
    bus_up,              \* Redis accepts commands
    \* history
    inputs,              \* frames each client sent in the message loop, with the verdict
    timed_out,           \* jobs whose run was killed at the wall-time limit
    compile_failed,      \* jobs whose compilation failed or timed out
    spawn_failed,        \* jobs whose program could not be started
    lookup_failed,       \* sessions whose redemption lookup raised
    \* worker statistics: the jobs counted in self.jobs_completed / jobs_failed
    jobs_completed,
    jobs_failed,
    \* token clock
    now,                 \* wall clock, in ticks
    minted_at,           \* tick at which the token was minted, -1 before
    marker_at,           \* tick of the last SETEX used_token:{jti}, -1 before
    redemptions,         \* times the token passed the single-use check
    \* pure functions: the argument drawn and the value computed
    arg,
    ret,
    pushed,              \* job ids in the order they were pushed
    popped,              \* <<job id, worker>> in the order they were popped
    complete_published,  \* jobs whose complete frame has been published
    error_published      \* jobs for which the worker published an error frame

gatewayVars == <<pc, first, data, token_used, job_id, closeCode, delivered, sub, inbox, active_connections>>
busVars == <<used_tokens, job_queue, store, seen>>
workerVars == <<wpc, current_job, emitted, result, publish_tasks>>
historyVars == <<pushed, popped, complete_published, error_published>>
inputVars == <<input_task, input_inbox, input_queue, sync_input_queue, pty_written, inputs>>
faultVars == <<running, bus_up, timed_out, compile_failed>>
clockVars == <<now, minted_at, marker_at, redemptions>>
jobCounters == <<jobs_completed, jobs_failed>>
auxVars == <<spawn_failed, lookup_failed, clockVars, arg, ret, jobCounters>>
vars == <<gatewayVars, busVars, workerVars, historyVars, inputVars, faultVars, auxVars>>

\* A job:{id} hash: status, whether result / error / completed_at are set,
\* and whether the key has a TTL.
JobRecord(status, res, err, done_at, ttl) ==
    [status |-> status, result |-> res, error |-> err, completed_at |-> done_at, ttl |-> ttl]
NoRecord == JobRecord("absent", FALSE, FALSE, FALSE, FALSE)

\* No function has been applied.
NoCall == [fn |-> "none"]

\* The pipeline after construction: no session has sent a frame, the bus is
\* empty, every worker awaits its first brpop.
InitPipeline ==
    /\ pc = [s \in Sessions |-> "await_first"]
    /\ first = [s \in Sessions |-> "pending"]
    /\ data = [s \in Sessions |-> NoFrame]
    /\ token_used = [s \in Sessions |-> "unknown"]
    /\ job_id = [s \in Sessions |-> NoJob]
    /\ closeCode = [s \in Sessions |-> 0]
    /\ delivered = [s \in Sessions |-> <<>>]
    /\ sub = [s \in Sessions |-> "none"]
    /\ inbox = [s \in Sessions |-> <<>>]
    /\ active_connections = {}
    /\ used_tokens = {}
    /\ job_queue = <<>>
    /\ store = [j \in StoredIds |-> NoRecord]
    /\ seen = NoRecord
    /\ wpc = [w \in Workers |-> "poll"]
    /\ current_job = [w \in Workers |-> NoEntry]
    /\ emitted = [w \in Workers |-> 0]
    /\ result = [w \in Workers |-> 0]
    /\ publish_tasks = {}
    /\ running = [w \in Workers |-> TRUE]
    /\ input_task = [w \in Workers |-> "none"]
    /\ input_inbox = [w \in Workers |-> <<>>]
    /\ input_queue = [w \in Workers |-> <<>>]
    /\ sync_input_queue = [w \in Workers |-> <<>>]
    /\ pty_written = [w \in Workers |-> <<>>]
    /\ bus_up = TRUE
    /\ inputs = [s \in Sessions |-> <<>>]
    /\ timed_out = {}
    /\ compile_failed = {}
    /\ pushed = <<>>
    /\ popped = <<>>
    /\ complete_published = {}
    /\ error_published = {}
    /\ spawn_failed = {}
    /\ lookup_failed = {}
    /\ jobs_completed = {}
    /\ jobs_failed = {}

Init ==
    /\ InitPipeline
    /\ now = 0
    /\ minted_at = -1
    /\ marker_at = -1
    /\ redemptions = 0
    /\ arg = NoCall
    /\ ret = NoCall

\* ---- gateway: websocket_execute ----------------------------------------------

\* ConnectionManager.disconnect
disconnect(conns, job) == conns \ {job}

\* The finally block of websocket_execute: drop the registration of the local
\* job_id and cancel subscription_task if it exists and is not done.
Finally(s, job) ==
    /\ active_connections' = IF job # NoJob THEN disconnect(active_connections, job)
                             ELSE active_connections
    /\ IF job # NoJob /\ sub[s] \in {"created", "subscribed"}
       THEN /\ sub' = [sub EXCEPT ![s] = "cancelled"]
            /\ inbox' = [inbox EXCEPT ![s] = <<>>]
       ELSE UNCHANGED <<sub, inbox>>

\* send_json(error), websocket.close(code), return; then the finally block.
Reject(s, job, msg, code) ==
    /\ delivered' = [delivered EXCEPT ![s] = Append(@, ErrorFrame(msg))]
    /\ closeCode' = [closeCode EXCEPT ![s] = code]
    /\ pc' = [pc EXCEPT ![s] = "done"]
    /\ Finally(s, job)

\* The outer except Exception of websocket_execute: a "Server error" frame,
\* then the finally block; websocket.close is not called.
ServerError(s) ==
    /\ delivered' = [delivered EXCEPT ![s] = Append(@, ErrorFrame("Server error"))]
    /\ pc' = [pc EXCEPT ![s] = "done"]
    /\ Finally(s, job_id[s])

\* websocket.close() without a code closes with 1000.
DefaultCloseCode == 1000
PolicyViolation == 1008

\* The first frame arrives, one of frames: missing-field check and
\* verify_job_token, which run without an await in between.
ReceiveFirstFrom(s, frames) ==
    /\ pc[s] = "await_first"
    /\ \E f \in frames :
        /\ first' = [first EXCEPT ![s] = "received"]
        /\ data' = [data EXCEPT ![s] = f]
        /\ job_id' = [job_id EXCEPT ![s] = f.job_id]
        /\ IF f.job_id = NoJob \/ f.job_token = NoToken
           THEN Reject(s, f.job_id, "Missing job_id or job_token", PolicyViolation)
           ELSE IF verify_job_token(f.job_token, f.job_id) # "ok"
           THEN Reject(s, f.job_id, "Authentication failed", PolicyViolation)
           ELSE /\ pc' = [pc EXCEPT ![s] = "is_token_used"]
                /\ UNCHANGED <<closeCode, delivered, sub, inbox, active_connections>>
    /\ UNCHANGED <<token_used, busVars, workerVars, historyVars>>
    /\ UNCHANGED <<inputVars, faultVars>>
    /\ UNCHANGED auxVars

\* The first frame of a client that got its job_id and job_token from
\* POST /api/jobs/create.
ReceiveFirst(s) == ReceiveFirstFrom(s, FirstFrames)

\* No frame within the 5 s of wait_for: asyncio.TimeoutError reaches the outer
\* except Exception, which sends a "Server error" frame; the finally block sees
\* job_id = None.  websocket.close is not called.
FirstFrameTimeout(s) ==
    /\ pc[s] = "await_first"
    /\ first' = [first EXCEPT ![s] = "timeout"]
    /\ delivered' = [delivered EXCEPT ![s] = Append(@, ErrorFrame("Server error"))]
    /\ pc' = [pc EXCEPT ![s] = "done"]
    /\ Finally(s, job_id[s])
    /\ UNCHANGED <<data, token_used, job_id, closeCode, busVars, workerVars, historyVars>>
    /\ UNCHANGED <<inputVars, faultVars>>
    /\ UNCHANGED auxVars

\* The client goes away before its first frame: WebSocketDisconnect.
DisconnectBeforeFirst(s) ==
    /\ pc[s] = "await_first"
    /\ first' = [first EXCEPT ![s] = "disconnect"]
    /\ pc' = [pc EXCEPT ![s] = "done"]
    /\ Finally(s, job_id[s])
    /\ UNCHANGED <<data, token_used, job_id, closeCode, delivered, busVars, workerVars, historyVars>>
    /\ UNCHANGED <<inputVars, faultVars>>
    /\ UNCHANGED auxVars

\* A lookup that answers "used" when the bus cannot be reached.
is_token_used_fail_closed(jti) == ~bus_up \/ jti \in used_tokens

\* JobTokenManager.is_token_used: EXISTS used_token:{jti}; an exception of the
\* lookup is caught and answered with False.
is_token_used(jti) == bus_up /\ jti \in used_tokens

\* await token_manager.is_token_used(jti)
CheckTokenUsed(s) ==
    /\ pc[s] = "is_token_used"
    /\ token_used' = [token_used EXCEPT
                        ![s] = IF is_token_used(data[s].job_token.jti) THEN "yes" ELSE "no"]
    /\ IF is_token_used(data[s].job_token.jti)
       THEN Reject(s, job_id[s], "Job token has already been used", PolicyViolation)
       ELSE /\ pc' = [pc EXCEPT ![s] = "mark_token_used"]
            /\ UNCHANGED <<closeCode, delivered, sub, inbox, active_connections>>
    /\ lookup_failed' = IF bus_up THEN lookup_failed ELSE lookup_failed \cup {s}
    /\ UNCHANGED <<first, data, job_id, busVars, workerVars, historyVars>>
    /\ UNCHANGED <<inputVars, faultVars>>
    /\ UNCHANGED <<spawn_failed, clockVars, arg, ret, jobCounters>>

\* A marker write that stores nothing.
mark_token_used_never(jti) == used_tokens

\* JobTokenManager.mark_token_used: SETEX used_token:{jti}; an exception of
\* the write is caught and printed, the marker is then not stored.
mark_token_used(jti) == IF bus_up THEN used_tokens \cup {jti} ELSE used_tokens

\* await token_manager.mark_token_used(jti), then the submission checks up to
\* the next await: code and language present, CodeSubmission, the validator.
MarkTokenUsed(s) ==
    /\ pc[s] = "mark_token_used"
    /\ used_tokens' = mark_token_used(data[s].job_token.jti)
    /\ LET code == data[s].code
           language == data[s].language
           filename == get_default_filename(language)
       IN  IF code = NoField \/ language = NoField
           THEN Reject(s, job_id[s], "Code and language are required", DefaultCloseCode)
           ELSE IF ~CodeSubmissionValid(code, language, filename)
           THEN Reject(s, job_id[s], "Invalid submission", DefaultCloseCode)
           ELSE IF validate_outcome(code, language) = "raises"
           THEN ServerError(s) /\ UNCHANGED closeCode
           ELSE IF ~validate(code, language)
           THEN Reject(s, job_id[s], "Code validation failed", DefaultCloseCode)
           ELSE /\ pc' = [pc EXCEPT ![s] = "create_job"]
                /\ UNCHANGED <<closeCode, delivered, sub, inbox, active_connections>>
    /\ UNCHANGED <<first, data, token_used, job_id, job_queue, store, seen, workerVars, historyVars>>
    /\ UNCHANGED <<inputVars, faultVars>>
    /\ UNCHANGED auxVars

\* JobService.create_job: HSET job:{id} with status queued, EXPIRE.
create_job(st, job) == [st EXCEPT ![job] = JobRecord("queued", FALSE, FALSE, FALSE, TRUE)]

\* job_service.create_job, manager.active_connections[job_id] = websocket,
\* asyncio.create_task(subscribe_to_channels).  With the bus down create_job
\* raises before job_id is rebound.
CreateJob(s) ==
    /\ pc[s] = "create_job"
    /\ IF bus_up
       THEN /\ store' = create_job(store, StoredId(s))
            /\ job_id' = [job_id EXCEPT ![s] = StoredId(s)]
            /\ active_connections' = active_connections \cup {StoredId(s)}
            /\ sub' = [sub EXCEPT ![s] = "created"]
            /\ pc' = [pc EXCEPT ![s] = "lpush"]
            /\ UNCHANGED <<delivered, inbox>>
       ELSE /\ ServerError(s)
            /\ UNCHANGED <<store, job_id>>
    /\ UNCHANGED <<first, data, token_used, closeCode, used_tokens,
                   job_queue, seen, workerVars, historyVars>>
    /\ UNCHANGED <<inputVars, faultVars>>
    /\ UNCHANGED auxVars

\* LPUSH: the entry goes to the head (left) of the list.
lpush(q, e) == <<e>> \o q

\* await redis.lpush("codr:job_queue", ...)
PushJob(s) ==
    /\ pc[s] = "lpush"
    /\ IF bus_up
       THEN /\ job_queue' = lpush(job_queue,
                                  QueueEntry(job_id[s], data[s].code, data[s].language,
                                             get_default_filename(data[s].language)))
            /\ pushed' = Append(pushed, job_id[s])
            /\ pc' = [pc EXCEPT ![s] = "loop"]
            /\ UNCHANGED <<delivered, sub, inbox, active_connections>>
       ELSE /\ ServerError(s)
            /\ UNCHANGED <<job_queue, pushed>>
    /\ UNCHANGED <<first, data, token_used, job_id, closeCode,
                   used_tokens, store, seen, workerVars, popped,
                   complete_published, error_published>>
    /\ UNCHANGED <<inputVars, faultVars>>
    /\ UNCHANGED auxVars

\* A disconnect that also takes the session's entry off the work list.
ClientDisconnectCancelsJob(s) ==
    /\ pc[s] = "loop"
    /\ pc' = [pc EXCEPT ![s] = "done"]
    /\ Finally(s, job_id[s])
    /\ job_queue' = SelectSeq(job_queue, LAMBDA e : e.job_id # job_id[s])
    /\ UNCHANGED <<first, data, token_used, job_id, closeCode, delivered, used_tokens,
                   store, seen, workerVars, historyVars>>
    /\ UNCHANGED <<inputVars, faultVars>>
    /\ UNCHANGED auxVars

\* The client disconnects during the message loop: WebSocketDisconnect, then
\* the finally block.
ClientDisconnect(s) ==
    /\ pc[s] = "loop"
    /\ pc' = [pc EXCEPT ![s] = "done"]
    /\ Finally(s, job_id[s])
    /\ UNCHANGED <<first, data, token_used, job_id, closeCode, delivered, busVars, workerVars,
                   historyVars>>
    /\ UNCHANGED <<inputVars, faultVars>>
    /\ UNCHANGED auxVars

\* ---- gateway: PubSubService.subscribe_to_channels -----------------------------

\* await pubsub.subscribe(output, complete): the subscription takes effect.
\* With the bus down the call raises and the task ends.
Subscribe(s) ==
    /\ sub[s] = "created"
    /\ sub' = [sub EXCEPT ![s] = IF bus_up THEN "subscribed" ELSE "failed"]
    /\ UNCHANGED <<pc, first, data, token_used, job_id, closeCode, delivered, inbox,
                   active_connections, busVars, workerVars, historyVars>>
    /\ UNCHANGED <<inputVars, faultVars>>
    /\ UNCHANGED auxVars

\* pubsub.listen() raises once the bus is gone: the finally clause of
\* subscribe_to_channels runs and the task ends.
SubscriptionFails(s) ==
    /\ sub[s] = "subscribed"
    /\ ~bus_up
    /\ sub' = [sub EXCEPT ![s] = "failed"]
    /\ inbox' = [inbox EXCEPT ![s] = <<>>]
    /\ UNCHANGED <<pc, first, data, token_used, job_id, closeCode, delivered,
                   active_connections, busVars, workerVars, historyVars>>
    /\ UNCHANGED <<inputVars, faultVars>>
    /\ UNCHANGED auxVars

\* A pub/sub message as the subscriber receives it: the name of its channel
\* (the job of job:{id}:output or job:{id}:complete) and its data, a frame.
bus_message(job, frame) ==
    CASE frame.type = "output" -> [channel |-> job, type |-> "output", chunk |-> frame.chunk]
      [] frame.type = "complete" ->
            [channel |-> job, type |-> "complete", exit_code |-> frame.exit_code]
      [] frame.type = "error" -> [channel |-> job, type |-> "error", message |-> frame.message]

\* json.loads(message["data"]): the frame of a pub/sub message.
message_data(message) ==
    CASE message.type = "output" -> OutputFrame(message.chunk)
      [] message.type = "complete" -> CompleteFrame(message.exit_code)
      [] message.type = "error" -> ErrorFrame(message.message)

\* ConnectionManager.send_message: the frame is sent if job_id is registered.
send_message(frames, conns, job, message) ==
    IF job \in conns THEN Append(frames, message) ELSE frames

\* A listen loop without the break on complete.
SubscriptionNeverStops(message) == "subscribed"

\* The listen loop stops after handling a complete message.
SubscriptionAfter(message) ==
    IF message.type = "complete" THEN "closed" ELSE "subscribed"

\* One iteration of `async for message in pubsub.listen()`: on_message, then
\* break on complete (the finally clause unsubscribes).
HandleMessage(s) ==
    /\ sub[s] = "subscribed"
    /\ inbox[s] # <<>>
    /\ LET message == Head(inbox[s])
       IN  /\ delivered' = [delivered EXCEPT
                              ![s] = send_message(@, active_connections, StoredId(s),
                                                  message_data(message))]
           /\ sub' = [sub EXCEPT ![s] = SubscriptionAfter(message)]
           /\ inbox' = [inbox EXCEPT
                          ![s] = IF SubscriptionAfter(message) = "subscribed"
                                 THEN Tail(@) ELSE <<>>]
    /\ UNCHANGED <<pc, first, data, token_used, job_id, closeCode, active_connections, busVars,
                   workerVars, historyVars>>
    /\ UNCHANGED <<inputVars, faultVars>>
    /\ UNCHANGED auxVars

\* A bus that hands a message to every subscription, whatever its channel.
publish_to_all(boxes, job, message) ==
    [s \in Sessions |->
        IF sub[s] = "subscribed"
        THEN Append(boxes[s], bus_message(job, message)) ELSE boxes[s]]

\* ---- bus: PUBLISH on a channel of job ------------------------------------------
\* A message reaches the connections subscribed at that moment; the gateway
\* subscription of a job listens on its output and complete channels with one
\* connection.
publish(boxes, job, message) ==
    [s \in Sessions |->
        IF sub[s] = "subscribed" /\ StoredId(s) = job
        THEN Append(boxes[s], bus_message(job, message)) ELSE boxes[s]]

\* ---- worker: CodeExecutionWorker -----------------------------------------------

\* BRPOP takes the entry at the tail (right) of the list.
brpop_entry(q) == q[Len(q)]

\* A pop that reads the tail entry and leaves it on the list.
peek_rest(q) == q

brpop_rest(q) == SubSeq(q, 1, Len(q) - 1)

\* json.loads(job_data_json) and the subscripts job_data["job_id"], ["code"],
\* ["language"], ["filename"] (start and the head of execute_job, outside every
\* try of execute_job): FALSE when one of them raises.
entry_readable(e) ==
    /\ e.syntax = "json"
    /\ e.job_id # NoJob
    /\ e.code # NoField
    /\ e.language # NoField
    /\ e.filename # NoField

\* Where the loop of start() goes when an iteration ends: `while self.running`
\* is evaluated and brpop is awaited again, or the loop exits.
loop_head(w) == IF running[w] THEN "poll" ELSE "stopped"

\* start(): brpop returns an entry; json.loads; execute_job begins: get_executor,
\* the input listener and the bridge are created and the runner thread started.
\* brpop was awaited when `self.running` was last evaluated, so it returns an
\* entry whatever self.running is now.
PopJob(w) ==
    /\ wpc[w] = "poll"
    /\ bus_up
    /\ job_queue # <<>>
    /\ current_job' = [current_job EXCEPT ![w] = brpop_entry(job_queue)]
    /\ job_queue' = brpop_rest(job_queue)
    /\ popped' = Append(popped, <<brpop_entry(job_queue).job_id, w>>)
    /\ emitted' = [emitted EXCEPT ![w] = 0]
    /\ IF ~entry_readable(brpop_entry(job_queue))
       THEN \* JSONDecodeError / KeyError leave start(): no except clause matches
            /\ wpc' = [wpc EXCEPT ![w] = "crashed"]
            /\ UNCHANGED <<input_task, input_inbox, input_queue, sync_input_queue,
                           pty_written>>
       ELSE /\ wpc' = [wpc EXCEPT ![w] =
                         IF brpop_entry(job_queue).language \in EXECUTORS
                         THEN "run" ELSE "publish_error"]
            /\ input_task' = [input_task EXCEPT ![w] =
                                IF brpop_entry(job_queue).language \in EXECUTORS
                                THEN "created" ELSE @]
            /\ input_inbox' = [input_inbox EXCEPT ![w] = <<>>]
            /\ input_queue' = [input_queue EXCEPT ![w] = <<>>]
            /\ sync_input_queue' = [sync_input_queue EXCEPT ![w] = <<>>]
            /\ pty_written' = [pty_written EXCEPT ![w] = <<>>]
    /\ UNCHANGED <<gatewayVars, used_tokens, store, seen, result, publish_tasks, pushed,
                   complete_published, error_published, inputs, faultVars>>
    /\ UNCHANGED auxVars

\* on_output(data): run_coroutine_threadsafe(publish_output(...)) submits a
\* coroutine to the loop and does not wait for it.
RunnerOutput(w) ==
    /\ wpc[w] = "run"
    /\ emitted[w] < OutputChunks(current_job[w].code)
    /\ emitted' = [emitted EXCEPT ![w] = @ + 1]
    /\ publish_tasks' = publish_tasks \cup
                          {[job |-> current_job[w].job_id, chunk |-> emitted[w] + 1]}
    /\ UNCHANGED <<gatewayVars, busVars, wpc, current_job, result, historyVars, inputVars,
                   faultVars>>
    /\ UNCHANGED auxVars

\* The pump loop polls the handoff queue: get_nowait, os.write(master_fd).
RunnerInput(w) ==
    /\ wpc[w] = "run"
    /\ sync_input_queue[w] # <<>>
    /\ pty_written' = [pty_written EXCEPT ![w] = Append(@, Head(sync_input_queue[w]))]
    /\ sync_input_queue' = [sync_input_queue EXCEPT ![w] = Tail(@)]
    /\ UNCHANGED <<gatewayVars, busVars, workerVars, historyVars, input_task, input_inbox,
                   input_queue, inputs, faultVars>>
    /\ UNCHANGED auxVars

\* input_task.cancel(); bridge_task.cancel(): the listener unsubscribes and the
\* queues of this job are no longer read.
CancelInputTasks(w) ==
    /\ input_task' = [input_task EXCEPT ![w] = "none"]
    /\ input_inbox' = [input_inbox EXCEPT ![w] = <<>>]
    /\ input_queue' = [input_queue EXCEPT ![w] = <<>>]
    /\ sync_input_queue' = [sync_input_queue EXCEPT ![w] = <<>>]

\* executor.execute returns its ExecutionResult after the program ended by
\* itself; input_task and bridge_task are cancelled; publish_complete is
\* awaited next.
RunnerReturn(w) ==
    /\ wpc[w] = "run"
    /\ \E code \in ExitCodes : result' = [result EXCEPT ![w] = code]
    /\ wpc' = [wpc EXCEPT ![w] = "publish_complete"]
    /\ CancelInputTasks(w)
    /\ UNCHANGED <<gatewayVars, busVars, current_job, emitted, publish_tasks, historyVars,
                   pty_written, inputs, faultVars>>
    /\ UNCHANGED auxVars

SIGKILL == 9

\* A Popen.returncode that forgets the signal.
returncode_signal_ignored(sig) == 0

\* Popen.returncode of a child ended by signal sig
returncode(sig) == 0 - sig

\* ExecutionResult.success
success(exit_code) == exit_code = 0

\* The safety timeout of the pump loop: the wall time of a program still running
\* exceeds self.timeout; process.kill(), break, process.wait; the result carries
\* the return code of the killed child.
RunnerTimeout(w) ==
    /\ wpc[w] = "run"
    /\ result' = [result EXCEPT ![w] = returncode(SIGKILL)]
    /\ timed_out' = timed_out \cup {current_job[w].job_id}
    /\ wpc' = [wpc EXCEPT ![w] = "publish_complete"]
    /\ CancelInputTasks(w)
    /\ UNCHANGED <<gatewayVars, busVars, current_job, emitted, publish_tasks, historyVars,
                   pty_written, inputs, running, bus_up, compile_failed>>
    /\ UNCHANGED auxVars

\* ExecutionResult.exit_code of _format_error_result
ErrorResultCode == -1

\* pty.openpty or subprocess.Popen raises (the sandbox binary or the
\* interpreter is missing, no pty is left): the except Exception of
\* _execute_pty returns _format_error_result, so executor.execute returns
\* normally with exit_code -1; the tasks are cancelled and publish_complete is
\* awaited next.
RunnerSpawnFails(w) ==
    /\ wpc[w] = "run"
    /\ emitted[w] = 0
    /\ pty_written[w] = <<>>
    /\ result' = [result EXCEPT ![w] = ErrorResultCode]
    /\ spawn_failed' = spawn_failed \cup {current_job[w].job_id}
    /\ wpc' = [wpc EXCEPT ![w] = "publish_complete"]
    /\ CancelInputTasks(w)
    /\ UNCHANGED <<gatewayVars, busVars, current_job, emitted, publish_tasks, historyVars,
                   pty_written, inputs, faultVars>>
    /\ UNCHANGED <<lookup_failed, clockVars, arg, ret, jobCounters>>

CompiledLanguages == {"c"}

\* Why executor.execute can raise before the program is started: the temporary
\* directory or the source file cannot be written, or (CompiledExecutor
\* ._build_command) the compiler exits non-zero or exceeds compilation_timeout.
RaiseCauses(language) ==
    {"io"} \cup (IF language \in CompiledLanguages
                 THEN {"compile_failed", "compile_timeout"} ELSE {})

\* executor.execute raises: the except branch of execute_job publishes an error
\* next.  input_task and bridge_task are not cancelled on this path.
RunnerRaise(w) ==
    /\ wpc[w] = "run"
    /\ emitted[w] = 0
    /\ pty_written[w] = <<>>
    /\ \E cause \in RaiseCauses(current_job[w].language) :
        compile_failed' = IF cause = "io" THEN compile_failed
                          ELSE compile_failed \cup {current_job[w].job_id}
    /\ wpc' = [wpc EXCEPT ![w] = "publish_error"]
    /\ UNCHANGED <<gatewayVars, busVars, current_job, emitted, result, publish_tasks,
                   historyVars, inputVars, running, bus_up, timed_out>>
    /\ UNCHANGED auxVars

\* A submitted publish_output coroutine runs: PUBLISH job:{id}:output.  When
\* the command fails the exception stays in the future nobody reads.
PublishOutput ==
    \E t \in publish_tasks :
        /\ publish_tasks' = publish_tasks \ {t}
        /\ inbox' = IF bus_up THEN publish(inbox, t.job, OutputFrame(t.chunk)) ELSE inbox
        /\ UNCHANGED <<pc, first, data, token_used, job_id, closeCode, delivered, sub,
                       active_connections, busVars, wpc, current_job, emitted, result,
                       historyVars, inputVars, faultVars, auxVars>>

\* await pubsub.publish_complete(job_id, exit_code, execution_time); the
\* worker goes back to the head of its loop.  When the PUBLISH fails the
\* exception is caught by the except branch of execute_job.
PublishComplete(w) ==
    /\ wpc[w] = "publish_complete"
    /\ IF bus_up
       THEN /\ inbox' = publish(inbox, current_job[w].job_id, CompleteFrame(result[w]))
            /\ complete_published' = complete_published \cup {current_job[w].job_id}
            /\ jobs_completed' = jobs_completed \cup {current_job[w].job_id}
            /\ wpc' = [wpc EXCEPT ![w] = loop_head(w)]
            /\ current_job' = [current_job EXCEPT ![w] = NoEntry]
            /\ emitted' = [emitted EXCEPT ![w] = 0]
            /\ result' = [result EXCEPT ![w] = 0]
       ELSE /\ wpc' = [wpc EXCEPT ![w] = "publish_error"]
            /\ UNCHANGED <<inbox, complete_published, current_job, emitted, result,
                           jobs_completed>>
    /\ UNCHANGED <<pc, first, data, token_used, job_id, closeCode, delivered, sub,
                   active_connections, busVars, publish_tasks, pushed, popped,
                   error_published, inputVars, faultVars>>
    /\ UNCHANGED <<spawn_failed, lookup_failed, clockVars, arg, ret, jobs_failed>>

\* await get_pubsub_service().publish_error(job_id, str(e)): PUBLISH on the
\* output channel; the worker goes back to the head of its loop.  When the
\* PUBLISH fails the exception leaves execute_job and start().
PublishError(w) ==
    /\ wpc[w] = "publish_error"
    /\ IF bus_up
       THEN /\ inbox' = publish(inbox, current_job[w].job_id, ErrorFrame("Execution failed"))
            /\ error_published' = error_published \cup {current_job[w].job_id}
            /\ jobs_failed' = jobs_failed \cup {current_job[w].job_id}
            /\ wpc' = [wpc EXCEPT ![w] = loop_head(w)]
            /\ current_job' = [current_job EXCEPT ![w] = NoEntry]
       ELSE /\ wpc' = [wpc EXCEPT ![w] = "crashed"]
            /\ UNCHANGED <<inbox, error_published, current_job, jobs_failed>>
    /\ UNCHANGED <<pc, first, data, token_used, job_id, closeCode, delivered, sub,
                   active_connections, busVars, emitted, result, publish_tasks,
                   pushed, popped, complete_published, inputVars, faultVars>>
    /\ UNCHANGED <<spawn_failed, lookup_failed, clockVars, arg, ret, jobs_completed>>

Next ==
    \/ \E s \in Sessions :
        \/ ReceiveFirst(s)
        \/ FirstFrameTimeout(s)
        \/ DisconnectBeforeFirst(s)
        \/ CheckTokenUsed(s)
        \/ MarkTokenUsed(s)
        \/ CreateJob(s)
        \/ PushJob(s)
        \/ ClientDisconnect(s)
        \/ Subscribe(s)
        \/ HandleMessage(s)
    \/ \E w \in Workers :
        \/ PopJob(w)
        \/ RunnerOutput(w)
        \/ RunnerReturn(w)
        \/ RunnerRaise(w)
        \/ PublishComplete(w)
        \/ PublishError(w)
    \/ PublishOutput

Spec == Init /\ [][Next]_vars

\* ---- worker under any work list, shutdown and bus failure ----------------------

\* Entries a client of the bus can leave on the work list for job: the gateway's
\* entries, an entry for a compiled language, an entry for a language without
\* an executor, text that is not JSON, and an object without "filename".
WorkerEntries(job) ==
    {QueueEntry(job, "safe", "python", get_default_filename("python")),
     QueueEntry(job, "verbose", "python", get_default_filename("python")),
     QueueEntry(job, "safe", "c", get_default_filename("c")),
     QueueEntry(job, "safe", "cobol", get_default_filename("cobol")),
     [QueueEntry(job, "safe", "python", get_default_filename("python"))
        EXCEPT !.syntax = "garbage"],
     QueueEntry(job, "safe", "python", NoField)}

\* LPUSH codr:job_queue by a client of the bus.
Enqueue(job) ==
    /\ bus_up
    /\ job \notin Range(pushed)
    /\ \E e \in WorkerEntries(job) : job_queue' = lpush(job_queue, e)
    /\ pushed' = Append(pushed, job)
    /\ UNCHANGED <<gatewayVars, used_tokens, store, seen, workerVars, popped,
                   complete_published, error_published, inputVars, faultVars>>
    /\ UNCHANGED auxVars

\* CodeExecutionWorker.stop, called by the handler of SIGINT / SIGTERM.
Stop(w) ==
    /\ running[w]
    /\ wpc[w] \notin {"crashed", "stopped"}
    /\ running' = [running EXCEPT ![w] = FALSE]
    /\ UNCHANGED <<gatewayVars, busVars, workerVars, historyVars, inputVars, bus_up,
                   timed_out, compile_failed>>
    /\ UNCHANGED auxVars

\* brpop returns None after worker_poll_timeout: `while self.running` is
\* evaluated again.  (While self.running holds the worker awaits brpop again,
\* which changes nothing.)
PollTimeout(w) ==
    /\ wpc[w] = "poll"
    /\ bus_up
    /\ ~running[w]
    /\ wpc' = [wpc EXCEPT ![w] = loop_head(w)]
    /\ UNCHANGED <<gatewayVars, busVars, current_job, emitted, result, publish_tasks,
                   historyVars, inputVars, faultVars>>
    /\ UNCHANGED auxVars

\* brpop raises redis.exceptions.ConnectionError, which is not the built-in
\* ConnectionError named by the except clause of start(): the exception leaves
\* start().
PollFails(w) ==
    /\ wpc[w] = "poll"
    /\ ~bus_up
    /\ wpc' = [wpc EXCEPT ![w] = "crashed"]
    /\ UNCHANGED <<gatewayVars, busVars, current_job, emitted, result, publish_tasks,
                   historyVars, inputVars, faultVars>>
    /\ UNCHANGED auxVars

\* Redis becomes unreachable, and reachable again.
BusFail ==
    /\ bus_up
    /\ bus_up' = FALSE
    /\ UNCHANGED <<gatewayVars, busVars, workerVars, historyVars, inputVars, running,
                   timed_out, compile_failed>>
    /\ UNCHANGED auxVars

BusRecover ==
    /\ ~bus_up
    /\ bus_up' = TRUE
    /\ UNCHANGED <<gatewayVars, busVars, workerVars, historyVars, inputVars, running,
                   timed_out, compile_failed>>
    /\ UNCHANGED auxVars

NextWorker ==
    \/ \E job \in StoredIds : Enqueue(job)
    \/ \E w \in Workers :
        \/ PopJob(w)
        \/ RunnerOutput(w)
        \/ RunnerReturn(w)
        \/ RunnerTimeout(w)
        \/ RunnerSpawnFails(w)
        \/ RunnerRaise(w)
        \/ PublishComplete(w)
        \/ PublishError(w)
        \/ Stop(w)
        \/ PollTimeout(w)
        \/ PollFails(w)
    \/ PublishOutput
    \/ BusFail
    \/ BusRecover

SpecWorker == Init /\ [][NextWorker]_vars

\* ---- gateway and workers with clients that choose their job_id freely ------------

\* First frames whose job_id is the id of a job record: without a token, and
\* with a token minted for another id.
ForgedFrames ==
    {[job_id |-> j, job_token |-> t, code |-> "safe", language |-> "python"] :
        j \in StoredIds, t \in {NoToken, create_job_token(MintedId(1))}}

ReceiveForgedFirst(s) == ReceiveFirstFrom(s, ForgedFrames)

NextForged ==
    \/ Next
    \/ \E s \in Sessions : ReceiveForgedFirst(s)

SpecForged == Init /\ [][NextForged]_vars

\* ---- gateway while the bus comes and goes ---------------------------------------

NextOutage ==
    \/ \E s \in Sessions :
        \/ ReceiveFirst(s)
        \/ FirstFrameTimeout(s)
        \/ DisconnectBeforeFirst(s)
        \/ CheckTokenUsed(s)
        \/ MarkTokenUsed(s)
        \/ CreateJob(s)
        \/ PushJob(s)
        \/ ClientDisconnect(s)
        \/ Subscribe(s)
        \/ SubscriptionFails(s)
    \/ BusFail
    \/ BusRecover

SpecOutage == Init /\ [][NextOutage]_vars

\* ---- one interactive session: client frames during the message loop ------------

max_input_kb == 100

\* Sizes, in bytes, of the data of an input frame.
InputSizes == {1, max_input_kb, max_input_kb + 1, max_input_kb * 1024, max_input_kb * 1024 + 1}

\* What a client can send during the message loop: an input frame, a frame of
\* another type, text that is not JSON.
ClientMessages ==
    {[type |-> "input", size |-> n] : n \in InputSizes}
      \cup {[type |-> "resize", size |-> 0], [type |-> "garbage", size |-> 0]}

\* The size check of the message loop: TRUE when the input is refused.
input_too_large(size) == size > max_input_kb

\* PUBLISH job:{id}:input reaches the input listeners subscribed to the channel.
publish_input(boxes, job, keystroke) ==
    [w \in Workers |->
        IF input_task[w] = "subscribed" /\ current_job[w].job_id = job
        THEN Append(boxes[w], keystroke) ELSE boxes[w]]

\* One iteration of the message loop: receive_json, the type and size checks,
\* redis.publish.  receive_json raising on text that is not JSON, or publish
\* raising, is caught by `except Exception` around the loop, which sends a
\* "WebSocket error" frame; the handler then leaves through the finally block.
ReceiveMessageFrom(s, messages) ==
    /\ pc[s] = "loop"
    /\ Len(inputs[s]) < MaxInputs
    /\ \E m \in messages :
        LET keystroke == [seq |-> Len(inputs[s]) + 1, size |-> m.size, from |-> s]
            raised == m.type = "garbage" \/
                      (m.type = "input" /\ ~input_too_large(m.size) /\ ~bus_up)
            refused == m.type = "input" /\ input_too_large(m.size)
            published == m.type = "input" /\ ~input_too_large(m.size) /\ bus_up
        IN  /\ inputs' = [inputs EXCEPT ![s] =
                            Append(@, [type |-> m.type, size |-> m.size,
                                       published |-> published])]
            /\ input_inbox' = IF published
                              THEN publish_input(input_inbox, job_id[s], keystroke)
                              ELSE input_inbox
            /\ delivered' = [delivered EXCEPT ![s] =
                                IF raised THEN Append(@, ErrorFrame("WebSocket error"))
                                ELSE IF refused
                                THEN Append(@, ErrorFrame("Input too large (max 10KB)"))
                                ELSE @]
            /\ IF raised
               THEN /\ pc' = [pc EXCEPT ![s] = "done"]
                    /\ Finally(s, job_id[s])
               ELSE UNCHANGED <<pc, sub, inbox, active_connections>>
    /\ UNCHANGED <<first, data, token_used, job_id, closeCode, busVars, workerVars,
                   historyVars, input_task, input_queue, sync_input_queue, pty_written,
                   faultVars>>
    /\ UNCHANGED auxVars

\* A client sends any frame during the message loop.
ReceiveMessage(s) == ReceiveMessageFrom(s, ClientMessages)

\* input_listener: await ps.subscribe(input_channel)
InputSubscribe(w) ==
    /\ input_task[w] = "created"
    /\ bus_up
    /\ input_task' = [input_task EXCEPT ![w] = "subscribed"]
    /\ UNCHANGED <<gatewayVars, busVars, workerVars, historyVars, input_inbox, input_queue,
                   sync_input_queue, pty_written, inputs, faultVars>>
    /\ UNCHANGED auxVars

\* asyncio.Queue.put
put(q, item) == Append(q, item)

\* input_listener: one message of ps.listen() is put on input_queue.
InputListen(w) ==
    /\ input_task[w] = "subscribed"
    /\ input_inbox[w] # <<>>
    /\ input_queue' = [input_queue EXCEPT ![w] = put(@, Head(input_inbox[w]))]
    /\ input_inbox' = [input_inbox EXCEPT ![w] = Tail(@)]
    /\ UNCHANGED <<gatewayVars, busVars, workerVars, historyVars, input_task,
                   sync_input_queue, pty_written, inputs, faultVars>>
    /\ UNCHANGED auxVars

\* A handoff that puts the item in front of the waiting ones.
sync_put_front(q, item) == <<item>> \o q

\* queue.Queue.put
sync_put(q, item) == Append(q, item)

\* bridge_input: item = await input_queue.get(); sync_input_queue.put(item)
BridgeInput(w) ==
    /\ input_task[w] \in {"created", "subscribed"}
    /\ input_queue[w] # <<>>
    /\ sync_input_queue' = [sync_input_queue EXCEPT
                              ![w] = sync_put(@, Head(input_queue[w]))]
    /\ input_queue' = [input_queue EXCEPT ![w] = Tail(@)]
    /\ UNCHANGED <<gatewayVars, busVars, workerVars, historyVars, input_task, input_inbox,
                   pty_written, inputs, faultVars>>
    /\ UNCHANGED auxVars

\* One client (session 1) and one worker (worker 1).
NextSession ==
    \/ \E s \in {1} :
        \/ ReceiveFirst(s)
        \/ FirstFrameTimeout(s)
        \/ DisconnectBeforeFirst(s)
        \/ CheckTokenUsed(s)
        \/ MarkTokenUsed(s)
        \/ CreateJob(s)
        \/ PushJob(s)
        \/ ReceiveMessage(s)
        \/ ClientDisconnect(s)
        \/ Subscribe(s)
        \/ HandleMessage(s)
    \/ \E w \in {1} :
        \/ PopJob(w)
        \/ InputSubscribe(w)
        \/ InputListen(w)
        \/ BridgeInput(w)
        \/ RunnerOutput(w)
        \/ RunnerInput(w)
        \/ RunnerReturn(w)
        \/ RunnerTimeout(w)
        \/ RunnerRaise(w)
        \/ PublishComplete(w)
        \/ PublishError(w)
    \/ PublishOutput

SpecSession == Init /\ [][NextSession]_vars

\* ---- several interactive sessions at once ----------------------------------------

\* The first frame of a client that runs a valid program with its own token.
OwnFrames(s) ==
    {[job_id |-> MintedId(s), job_token |-> create_job_token(MintedId(s)),
      code |-> "safe", language |-> "python"]}

ReceiveOwnFirst(s) == ReceiveFirstFrom(s, OwnFrames(s))

\* A client types one keystroke.
SendInput(s) ==
    /\ inputs[s] = <<>>
    /\ ReceiveMessageFrom(s, {[type |-> "input", size |-> 1]})

NextIsolation ==
    \/ \E s \in Sessions :
        \/ ReceiveOwnFirst(s)
        \/ CheckTokenUsed(s)
        \/ MarkTokenUsed(s)
        \/ CreateJob(s)
        \/ PushJob(s)
        \/ SendInput(s)
        \/ ClientDisconnect(s)
        \/ Subscribe(s)
        \/ HandleMessage(s)
    \/ \E w \in Workers :
        \/ PopJob(w)
        \/ InputSubscribe(w)
        \/ InputListen(w)
        \/ BridgeInput(w)
        \/ RunnerOutput(w)
        \/ RunnerInput(w)
        \/ RunnerReturn(w)
        \/ RunnerRaise(w)
        \/ PublishComplete(w)
        \/ PublishError(w)
    \/ PublishOutput

SpecIsolation == Init /\ [][NextIsolation]_vars

\* ---- job store: JobService under any sequence of calls -------------------------

\* HSET key field value
hset(rec, field, value) == [rec EXCEPT ![field] = value]

\* pipe.execute(): the buffered commands run as one MULTI/EXEC transaction, so
\* no other client reads the hash between two of them.
RECURSIVE execute(_, _)
execute(rec, commands) ==
    IF commands = <<>> THEN rec
    ELSE execute(hset(rec, Head(commands)[1], Head(commands)[2]), Tail(commands))

\* JobService.mark_processing
mark_processing(rec) == hset(rec, "status", "processing")

\* mark_completed writing the status on its own, outside the pipeline.
mark_completed_status_first(rec) == hset(rec, "status", "completed")

\* JobService.mark_completed: result, status, completed_at in one pipeline
mark_completed(rec) ==
    execute(rec, << <<"result", TRUE>>, <<"status", "completed">>,
                    <<"completed_at", TRUE>> >>)

\* JobService.mark_failed: error, status and (if given) result in one pipeline
mark_failed(rec, with_result) ==
    execute(rec, << <<"error", TRUE>>, <<"status", "failed">> >>
                  \o (IF with_result THEN << <<"result", TRUE>> >> ELSE <<>>))

storeFrame == <<gatewayVars, used_tokens, job_queue, workerVars, historyVars, inputVars,
                faultVars, auxVars>>

\* A caller creates a job (a fresh id).
StoreCreate(j) ==
    /\ store[j] = NoRecord
    /\ store' = create_job(store, j)
    /\ UNCHANGED <<seen, storeFrame>>

StoreMarkProcessing(j) ==
    /\ store' = [store EXCEPT ![j] = mark_processing(@)]
    /\ UNCHANGED <<seen, storeFrame>>

StoreMarkCompleted(j) ==
    /\ store' = [store EXCEPT ![j] = mark_completed(@)]
    /\ UNCHANGED <<seen, storeFrame>>

StoreMarkFailed(j) ==
    /\ \E with_result \in BOOLEAN : store' = [store EXCEPT ![j] = mark_failed(@, with_result)]
    /\ UNCHANGED <<seen, storeFrame>>

\* JobService.get_job: HGETALL job:{id}, one command
get_job(j) == store[j]

\* An observer reads a job.
StoreGet(j) ==
    /\ seen' = get_job(j)
    /\ UNCHANGED <<store, storeFrame>>

NextStore ==
    \E j \in StoredIds :
        \/ StoreCreate(j)
        \/ StoreMarkProcessing(j)
        \/ StoreMarkCompleted(j)
        \/ StoreMarkFailed(j)
        \/ StoreGet(j)

SpecStore == Init /\ [][NextStore]_vars

\* ---- job store with expiry --------------------------------------------------------

\* redis_ttl seconds after the EXPIRE of create_job the key job:{id} is deleted
\* by the store.
StoreEvict(j) ==
    /\ store[j] # NoRecord
    /\ store[j].ttl
    /\ store' = [store EXCEPT ![j] = NoRecord]
    /\ UNCHANGED <<seen, storeFrame>>

NextStoreTTL ==
    \/ NextStore
    \/ \E j \in StoredIds : StoreEvict(j)

SpecStoreTTL == Init /\ [][NextStoreTTL]_vars

\* ---- pure functions, applied to arguments drawn at the start -------------------

\* str(e) of the exception behind an error frame.
ExceptionTexts ==
    {"Error 111 connecting to redis:6379", "1 validation error for CodeSubmission",
     "[Errno 2] No such file or directory: 'firejail'"}

Envs == {"production", "development"}

\* _sanitize_error: str(error) in development, a fixed sentence otherwise.
sanitize_error(env, text) ==
    IF env = "development" THEN text
    ELSE "An Error has occured processing your request"

\* The message of each error frame built from an exception, as the parts of its
\* f-string.
\* except around CodeSubmission(...)
submission_error_message(env, text) == <<"Invalid submission: ", text>>
\* except Exception of the message loop
loop_error_message(env, text) == <<"WebSocket error: ", text>>
\* the outer except Exception
server_error_message(env, text) == <<"Server error: ", sanitize_error(env, text)>>
\* except Exception of execute_job: publish_error(job_id, str(e))
worker_error_message(env, text) == <<text>>

ErrorSites == {"submission", "loop", "server", "worker"}

error_message(site, env, text) ==
    CASE site = "submission" -> submission_error_message(env, text)
      [] site = "loop" -> loop_error_message(env, text)
      [] site = "server" -> server_error_message(env, text)
      [] site = "worker" -> worker_error_message(env, text)

\* Two exceptions at the same site under the same settings.
ErrorMessageArgs ==
    {[fn |-> "error_message", site |-> site, env |-> env, e1 |-> e1, e2 |-> e2] :
        site \in ErrorSites, env \in Envs, e1 \in ExceptionTexts, e2 \in ExceptionTexts}

ApplyErrorMessage ==
    /\ arg.fn = "error_message"
    /\ ret = NoCall
    /\ ret' = [fn |-> "error_message",
               m1 |-> error_message(arg.site, arg.env, arg.e1),
               m2 |-> error_message(arg.site, arg.env, arg.e2)]
    /\ UNCHANGED <<gatewayVars, busVars, workerVars, historyVars, inputVars, faultVars,
                   spawn_failed, lookup_failed, clockVars, arg, jobCounters>>

\* Sources and languages handed to the validator.
ValidateArgs ==
    {[fn |-> "validate", code |-> code, language |-> language] :
        code \in {"safe", "blocked", "syntax_error"},
        language \in {"python", "javascript", "c", "cpp", "rust", "cobol"}}

ApplyValidate ==
    /\ arg.fn = "validate"
    /\ ret = NoCall
    /\ ret' = [fn |-> "validate", outcome |-> validate_outcome(arg.code, arg.language)]
    /\ UNCHANGED <<gatewayVars, busVars, workerVars, historyVars, inputVars, faultVars,
                   spawn_failed, lookup_failed, clockVars, arg, jobCounters>>

\* A text is a sequence of tokens: "ESC" is \x1b, "0" stands for the characters
\* of [0-9;], "tmp" for a run of letters, "Error:" for that word.
MaxTextLen == 6
TextAlphabet == {"ESC", "[", "0", "m", "/", "tmp", "Error:"}
Texts == UNION {[1..n -> TextAlphabet] : n \in 0..MaxTextLen}

\* The number of consecutive tokens of text from position i that are in class.
RECURSIVE RunLen(_, _, _)
RunLen(text, i, class) ==
    IF i <= Len(text) /\ text[i] \in class THEN 1 + RunLen(text, i + 1, class) ELSE 0

At(text, i) == IF i >= 1 /\ i <= Len(text) THEN <<text[i]>> ELSE <<>>

\* tempfile.mkdtemp(): a directory under /tmp
WorkDir == <<"/", "tmp", "/", "tmp">>

\* The length of the match of a pattern at position i of text, 0 if none.
\*   ansi:    \x1b\[[0-9;]*m|\[[\d;]+m     (the first alternative is tried first)
\*   workdir: {re.escape(workdir)}/?
\*   tmp:     /tmp/[^/]+/
MatchLen(pattern, text, i) ==
    CASE pattern = "ansi" ->
            LET n1 == RunLen(text, i + 2, {"0"})
                n2 == RunLen(text, i + 1, {"0"})
            IN  IF At(text, i) = <<"ESC">> /\ At(text, i + 1) = <<"[">>
                   /\ At(text, i + 2 + n1) = <<"m">>
                THEN n1 + 3
                ELSE IF At(text, i) = <<"[">> /\ n2 >= 1 /\ At(text, i + 1 + n2) = <<"m">>
                THEN n2 + 2
                ELSE 0
      [] pattern = "workdir" ->
            IF i + Len(WorkDir) - 1 <= Len(text)
               /\ SubSeq(text, i, i + Len(WorkDir) - 1) = WorkDir
            THEN Len(WorkDir) + (IF At(text, i + Len(WorkDir)) = <<"/">> THEN 1 ELSE 0)
            ELSE 0
      [] pattern = "tmp" ->
            LET n == RunLen(text, i + 3, TextAlphabet \ {"/"})
            IN  IF At(text, i) = <<"/">> /\ At(text, i + 1) = <<"tmp">>
                   /\ At(text, i + 2) = <<"/">> /\ n >= 1 /\ At(text, i + 3 + n) = <<"/">>
                THEN n + 4
                ELSE 0

\* re.sub(pattern, "", text): one pass from left to right; a match is dropped
\* and the scan goes on behind it, anything else is kept.
RECURSIVE re_sub_from(_, _, _)
re_sub_from(pattern, text, i) ==
    IF i > Len(text) THEN <<>>
    ELSE IF MatchLen(pattern, text, i) > 0
    THEN re_sub_from(pattern, text, i + MatchLen(pattern, text, i))
    ELSE <<text[i]>> \o re_sub_from(pattern, text, i + 1)

re_sub(pattern, text) == re_sub_from(pattern, text, 1)

strip_ansi_codes(text) == re_sub("ansi", text)

\* The two /var/folders patterns find nothing in a text of TextAlphabet.
clean_file_paths(text) == re_sub("tmp", re_sub("workdir", text))

\* strip_ansi_codes, clean_file_paths; filter_stack_trace, the collapse of
\* blank lines and strip() return a one-line text without blanks as it is.
format_error_message(text) == clean_file_paths(strip_ansi_codes(text))

\* BaseExecutor._clean_output: a chunk that looks like an error is formatted,
\* any other chunk only loses its ANSI codes.
clean_output(text) ==
    IF "Error:" \in Range(text) THEN format_error_message(text) ELSE strip_ansi_codes(text)

CleanArgs == {[fn |-> "clean_output", text |-> text] : text \in Texts}

\* The cleaner is applied to a chunk, and to its own result.
ApplyClean ==
    /\ arg.fn = "clean_output"
    /\ ret = NoCall
    /\ ret' = [fn |-> "clean_output",
               once |-> clean_output(arg.text),
               twice |-> clean_output(clean_output(arg.text))]
    /\ UNCHANGED <<gatewayVars, busVars, workerVars, historyVars, inputVars, faultVars,
                   spawn_failed, lookup_failed, clockVars, arg, jobCounters>>

\* A filename: `run` letters followed by the characters of `text`.  "a" is a
\* character of [a-zA-Z0-9_-], "NL" is a newline, ";" any other character.
MaxNameTokens == 3
LongRun == 253
MaxFilenameLen == 255
NameAlphabet == {"a", ".", "/", ";", "NL"}
NameClass == {"a", "."}
Filenames ==
    {[run |-> run, text |-> text] :
        run \in {0, LongRun},
        text \in UNION {[1..n -> NameAlphabet] : n \in 0..MaxNameTokens}}

\* len(filename)
NameLen(f) == f.run + Len(f.text)

\* re.match(r"^[a-zA-Z0-9_.-]+$", filename): one or more characters of the
\* class up to the end of the string, where $ also matches just before a
\* newline that ends the string.
name_pattern_matches(f) ==
    LET n == Len(f.text)
        body == IF n > 0 /\ f.text[n] = "NL" THEN SubSeq(f.text, 1, n - 1) ELSE f.text
    IN  /\ Range(body) \subseteq NameClass
        /\ f.run + Len(body) >= 1

\* ".." in filename or filename.startswith("/")
name_traverses(f) ==
    \/ \E i \in 1..(Len(f.text) - 1) : f.text[i] = "." /\ f.text[i + 1] = "."
    \/ (f.run = 0 /\ Len(f.text) > 0 /\ f.text[1] = "/")

\* validateFileName of the submission model: TRUE iff it does not raise.
validateFileName(f) ==
    /\ name_pattern_matches(f)
    /\ ~name_traverses(f)
    /\ ~(NameLen(f) > MaxFilenameLen)

\* BaseExecutor._validateFileName: TRUE iff it does not raise.
executor_validateFileName(f) ==
    /\ name_pattern_matches(f)
    /\ ~name_traverses(f)

FilenameArgs == {[fn |-> "filename", name |-> f] : f \in Filenames}

\* CodeSubmission(filename=...) and BaseExecutor._writeToFile check the name.
ApplyFilenameChecks ==
    /\ arg.fn = "filename"
    /\ ret = NoCall
    /\ ret' = [fn |-> "filename",
               submission |-> validateFileName(arg.name),
               executor |-> executor_validateFileName(arg.name)]
    /\ UNCHANGED <<gatewayVars, busVars, workerVars, historyVars, inputVars, faultVars,
                   spawn_failed, lookup_failed, clockVars, arg, jobCounters>>

InitFunctions ==
    /\ InitPipeline
    /\ now = 0
    /\ minted_at = -1
    /\ marker_at = -1
    /\ redemptions = 0
    /\ arg \in ErrorMessageArgs \cup ValidateArgs \cup CleanArgs \cup FilenameArgs
    /\ ret = NoCall

NextFunctions ==
    \/ ApplyErrorMessage
    \/ ApplyValidate
    \/ ApplyClean
    \/ ApplyFilenameChecks

SpecFunctions == InitFunctions /\ [][NextFunctions]_vars

\* ---- one token on the wall clock: expiry of the token and of its marker ---------

\* The clock advances in ticks.  TokenLifetime is jwt_expiration_minutes * 60,
\* in seconds.
TicksPerSecond == 3
TokenLifetime == 1
MaxTicks == 12

\* timegm(t.utctimetuple()): the time in whole seconds, the fraction dropped.
seconds(tick) == tick \div TicksPerSecond

\* create_job_token: exp = utcnow() + timedelta(minutes=jwt_expiration_minutes);
\* jwt.encode stores the datetime as whole seconds.
token_exp(minted) == seconds(minted + TokenLifetime * TicksPerSecond)

\* jwt.decode: ExpiredSignatureError is raised iff exp < now, both in whole
\* seconds and without leeway.
decode_accepts(exp, tick) == ~(exp < seconds(tick))

\* EXISTS used_token:{jti} after SETEX with ttl = jwt_expiration_minutes * 60:
\* the key is gone once the clock is past the time of the write plus ttl.
marker_present(set_at, tick) ==
    set_at >= 0 /\ tick <= set_at + TokenLifetime * TicksPerSecond

Tick ==
    /\ now < MaxTicks
    /\ now' = now + 1
    /\ UNCHANGED <<gatewayVars, busVars, workerVars, historyVars, inputVars, faultVars,
                   spawn_failed, lookup_failed, minted_at, marker_at, redemptions, arg, ret,
                   jobCounters>>

\* POST /api/jobs mints the token of a job.
MintToken ==
    /\ minted_at = -1
    /\ minted_at' = now
    /\ UNCHANGED <<gatewayVars, busVars, workerVars, historyVars, inputVars, faultVars,
                   spawn_failed, lookup_failed, now, marker_at, redemptions, arg, ret,
                   jobCounters>>

\* A session presents the token: verify_job_token accepts it, is_token_used
\* finds no marker, mark_token_used writes the marker.
RedeemToken ==
    /\ minted_at >= 0
    /\ decode_accepts(token_exp(minted_at), now)
    /\ ~marker_present(marker_at, now)
    /\ marker_at' = now
    /\ redemptions' = redemptions + 1
    /\ UNCHANGED <<gatewayVars, busVars, workerVars, historyVars, inputVars, faultVars,
                   spawn_failed, lookup_failed, now, minted_at, arg, ret,
                   jobCounters>>

NextClock ==
    \/ Tick
    \/ MintToken
    \/ RedeemToken

SpecClock == Init /\ [][NextClock]_vars

\* ---- properties ----------------------------------------------------------------

FrameTypes(frames) == [i \in DOMAIN frames |-> frames[i].type]
NothingStored(s) == store[StoredId(s)] = NoRecord /\ StoredId(s) \notin Range(pushed)

\* The session is past the single-use check: is_token_used returned False and
\* mark_token_used has returned.
PassedSingleUse(s) == token_used[s] = "no" /\ pc[s] # "mark_token_used"

\* The session passed the single-use check and its submission was accepted: it
\* stores, queues and relays a job.
Executing(s) == PassedSingleUse(s) /\ pc[s] \in {"create_job", "lpush", "loop"}

\* C1: among the sessions that present tokens with the same jti, at most one
\* passes the single-use check and goes on to execute a job.
C1_SingleUseUnderConcurrency ==
    \A s1, s2 \in Sessions :
        ( /\ Executing(s1)
          /\ Executing(s2)
          /\ data[s1].job_token.jti = data[s2].job_token.jti ) => s1 = s2

\* The first frame fails authentication: a field is missing, the token is
\* malformed, expired or bound to another job_id.
BadCredentials(f) ==
    \/ f.job_id = NoJob
    \/ f.job_token = NoToken
    \/ f.job_token.sig # "ok"
    \/ f.job_token.expired
    \/ f.job_token.job_id # f.job_id

\* C2: a session whose first frame fails authentication, or whose jti was found
\* already marked used, has received exactly one error frame (for a reused
\* token: "Job token has already been used"), is closed with code 1008, and has
\* no job record and no queue entry.
C2_AuthFailureIsTerminal ==
    \A s \in Sessions :
        (first[s] = "received" /\ (BadCredentials(data[s]) \/ token_used[s] = "yes")) =>
            /\ pc[s] = "done"
            /\ Len(delivered[s]) = 1
            /\ delivered[s][1].type = "error"
            /\ closeCode[s] = 1008
            /\ NothingStored(s)
            /\ (~BadCredentials(data[s]) =>
                    delivered[s][1].message = "Job token has already been used")

\* A session was refused because its token had been redeemed by another one.
C2_Witness ==
    \E s \in Sessions :
        /\ token_used[s] = "yes"
        /\ closeCode[s] = 1008
        /\ delivered[s] = <<ErrorFrame("Job token has already been used")>>

\* C3: the frames delivered to a client hold no output frame and no second
\* complete frame after a complete frame.
C3_NothingAfterComplete ==
    \A s \in Sessions :
        \A i, j \in DOMAIN delivered[s] :
            (i < j /\ delivered[s][i].type = "complete") =>
                delivered[s][j].type \notin {"output", "complete"}

\* The client has its complete frame while an output frame of the job is still
\* to be published.
C3_Witness ==
    \E s \in Sessions :
        /\ "complete" \in Range(FrameTypes(delivered[s]))
        /\ \E t \in publish_tasks : t.job = StoredId(s)

\* C4: once the complete frame of a job is published, every chunk handed to
\* on_output for that job has been published.
C4_CompleteStrictlyLast ==
    \A t \in publish_tasks : t.job \notin complete_published

\* Job ids popped so far, and job ids on the list from oldest to newest.
PoppedJobs == [i \in DOMAIN popped |-> popped[i][1]]
QueuedJobs == [i \in DOMAIN job_queue |-> job_queue[Len(job_queue) + 1 - i].job_id]

\* Two entries were pushed and two different workers received one each.
C5_Witness ==
    /\ Len(popped) = 2
    /\ popped[1][2] # popped[2][2]
    /\ \A w \in Workers : wpc[w] = "run"

\* Stage of a status in queued -> processing -> (completed | failed).
Stage(status) ==
    CASE status = "queued" -> 1
      [] status = "processing" -> 2
      [] status \in {"completed", "failed"} -> 3
      [] OTHER -> 0

\* C6: the status of a job record never returns to an earlier stage of
\* queued -> processing -> (completed | failed).
C6_StatusMonotone ==
    [][\A j \in StoredIds : Stage(store'[j].status) >= Stage(store[j].status)]_vars

\* A hash with a terminal status carries its payload.
TerminalHasPayload(rec) ==
    /\ rec.status = "completed" => (rec.result /\ rec.completed_at)
    /\ rec.status = "failed" => rec.error

\* C7: whatever an observer reads, a completed job has its result and
\* completed_at and a failed job has its error.
C7_TerminalStatusHasPayload ==
    /\ TerminalHasPayload(seen)
    /\ \A j \in StoredIds : TerminalHasPayload(store[j])

\* An observer has read a completed job, and a failed job is in the store.
C7_Witness ==
    /\ seen.status = "completed"
    /\ \E j \in StoredIds : store[j].status = "failed"

\* C8: a session whose first frame did not arrive within the timeout is closed
\* with code 1008 and has no job record and no queue entry.
C8_TimeoutCloses1008 ==
    \A s \in Sessions :
        first[s] = "timeout" => (closeCode[s] = 1008 /\ NothingStored(s))

\* The submission of the first frame is refused: code or language missing, the
\* submission model invalid (code too long, language unsupported), or the code
\* uses a blocked operation.
BadSubmission(f) ==
    \/ f.code = NoField
    \/ f.language = NoField
    \/ f.code = "oversize"
    \/ f.language # "python"
    \/ f.code = "blocked"

\* C9: a session that passed authentication and whose submission is refused has
\* received exactly one error frame, is closed with code 1000, and has no job
\* record and no queue entry.
C9_RejectedSubmission ==
    \A s \in Sessions :
        (PassedSingleUse(s) /\ BadSubmission(data[s])) =>
            /\ pc[s] = "done"
            /\ Len(delivered[s]) = 1
            /\ delivered[s][1].type = "error"
            /\ closeCode[s] = 1000
            /\ NothingStored(s)

\* An authenticated session was refused for blocked code.
C9_Witness ==
    \E s \in Sessions :
        /\ PassedSingleUse(s)
        /\ data[s].code = "blocked"
        /\ data[s].language = "python"
        /\ closeCode[s] = 1000

\* ---- fairness -------------------------------------------------------------------
\* A worker that polls takes an entry when there is one, a run ends (the runner
\* kills the program at execution_timeout), and an awaited publish returns.
FairSpec ==
    /\ Spec
    /\ \A w \in Workers :
        /\ WF_vars(PopJob(w))
        /\ WF_vars(RunnerReturn(w))
        /\ WF_vars(PublishComplete(w))
        /\ WF_vars(PublishError(w))

\* Every entry pushed is on the list or was received by exactly one worker, and
\* the entries were received in the order they were pushed.
ExactlyOnce ==
    /\ pushed = PoppedJobs \o QueuedJobs
    /\ \A i, j \in DOMAIN popped : popped[i][1] = popped[j][1] => i = j
    /\ \A w \in Workers :
        current_job[w] # NoEntry => <<current_job[w].job_id, w>> \in Range(popped)
    /\ \A w1, w2 \in Workers :
        (current_job[w1] # NoEntry /\ current_job[w1] = current_job[w2]) => w1 = w2

\* C5: every entry pushed onto the work list is received by exactly one worker:
\* none is received twice, none is skipped (entries are received in push
\* order), and while workers keep polling every entry pushed is received.
C5_ExactlyOnceDelivery ==
    /\ []ExactlyOnce
    /\ \A j \in StoredIds : (j \in Range(pushed)) ~> (j \in Range(PoppedJobs))

\* The worker has published the frame that ends the job.
TerminalFramePublished(job) == job \in complete_published \cup error_published

C11_WorkerSurvivesJobFaults ==
    \A w \in Workers : wpc[w] = "crashed" => current_job[w] = NoEntry

\* C12: a worker whose stop() was called takes no further entry off the work
\* list, and a worker that left its loop holds no entry.
C12_GracefulShutdown ==
    /\ [][\A w \in Workers :
            ~running[w] =>
                ~(\E i \in DOMAIN popped' : i > Len(popped) /\ popped'[i][2] = w)]_vars
    /\ [](\A w \in Workers : wpc[w] = "stopped" => current_job[w] = NoEntry)

\* C13: a job whose compilation exited non-zero or exceeded the compilation
\* deadline is not ended with an error frame (it ends with a complete frame).
C13_CompileFailureCompletes ==
    \A j \in compile_failed : j \notin error_published

\* ---- fairness of one session ---------------------------------------------------
\* The worker takes the entry, the run ends (by itself or at the wall-time
\* limit), and an awaited publish returns.
FairSpecSession ==
    /\ SpecSession
    /\ \A w \in {1} :
        /\ WF_vars(PopJob(w))
        /\ WF_vars(RunnerReturn(w) \/ RunnerTimeout(w))
        /\ WF_vars(PublishComplete(w))
        /\ WF_vars(PublishError(w))

\* The complete frames among frames carry a non-zero exit code.
CompleteFramesNonZero(frames) ==
    \A i \in DOMAIN frames : frames[i].type = "complete" => frames[i].exit_code # 0

InputPipeline(w) ==
    pty_written[w] \o sync_input_queue[w] \o input_queue[w] \o input_inbox[w]

\* C15: the keystrokes written to the PTY master, followed by those waiting in
\* the handoff queue, the listener's queue and the subscription, are in the
\* order in which the gateway published them.
C15_InputOrder ==
    \A w \in Workers :
        \A i, j \in DOMAIN InputPipeline(w) :
            i < j => InputPipeline(w)[i].seq < InputPipeline(w)[j].seq

\* Two keystrokes were written to the PTY master.
C15_Witness ==
    \E w \in Workers : Len(pty_written[w]) = 2

\* C16: an output chunk is published only when no chunk that the runner read
\* earlier for the same job is still waiting to be published.
C16_OutputOrder ==
    [][\A t \in publish_tasks \ publish_tasks' :
            \A u \in publish_tasks : u.job = t.job => u.chunk >= t.chunk]_vars

\* ---- client frames during the message loop --------------------------------------

\* C17: an input frame is published to the input channel exactly when its data
\* is at most max_input_kb kilobytes.
C17_InputCapInKilobytes ==
    \A s \in Sessions :
        \A i \in DOMAIN inputs[s] :
            inputs[s][i].type = "input" =>
                (inputs[s][i].published <=> inputs[s][i].size <= max_input_kb * 1024)

\* The frame is oversize or is not JSON.
BadFrame(m) == m.type = "garbage" \/ (m.type = "input" /\ input_too_large(m.size))

\* C18: a step that receives an oversize or malformed frame sends one error
\* frame, publishes nothing on the input channel and leaves the session in its
\* message loop.
C18_BadFrameDropped ==
    [][\A s \in Sessions :
            (Len(inputs'[s]) > Len(inputs[s]) /\ BadFrame(inputs'[s][Len(inputs'[s])])) =>
                /\ pc'[s] = "loop"
                /\ Len(delivered'[s]) = Len(delivered[s]) + 1
                /\ delivered'[s][Len(delivered'[s])].type = "error"
                /\ input_inbox' = input_inbox]_vars

\* ---- end of a session ------------------------------------------------------------

\* The session has ended and nothing of it is left.
SessionClosed(s, code) ==
    /\ pc[s] = "done"
    /\ closeCode[s] = code
    /\ sub[s] # "subscribed"
    /\ StoredId(s) \notin active_connections

\* C19: once the complete frame has been forwarded to the client the gateway
\* ends the session: registration and subscription removed, socket closed with
\* code 1000.
C19_CompleteEndsSession ==
    \A s \in Sessions :
        ("complete" \in Range(FrameTypes(delivered[s]))) ~> SessionClosed(s, 1000)

\* C20: once an error frame published by the worker has been forwarded to the
\* client the gateway ends the session: registration and subscription removed,
\* socket closed with code 1011.
C20_ServerFaultEndsSession ==
    \A s \in Sessions :
        (ErrorFrame("Execution failed") \in Range(delivered[s])) ~> SessionClosed(s, 1011)
\* C21: a redemption lookup that cannot reach the bus answers "not used": the
\* session is not rejected as a replay, it goes on past the single-use check.
C21_LookupFailsOpen ==
    \A s \in lookup_failed :
        /\ token_used[s] = "no"
        /\ closeCode[s] # PolicyViolation
        /\ ErrorFrame("Job token has already been used") \notin Range(delivered[s])

\* A session whose lookup failed, whose token had been redeemed before by the
\* other session, and which reached its message loop.
C21_Witness ==
    \E s \in lookup_failed, t \in Sessions \ lookup_failed :
        /\ pc[s] = "loop"
        /\ pc[t] = "loop"
        /\ data[s].job_token.jti = data[t].job_token.jti
        /\ data[s].job_token.jti \in used_tokens

\* C22: once the status of a job is completed or failed, no operation of the
\* job store changes its status, result or error.
C22_TerminalImmutable ==
    [][\A j \in StoredIds :
         store[j].status \in {"completed", "failed"} =>
             /\ store'[j].status = store[j].status
             /\ store'[j].result = store[j].result
             /\ store'[j].error = store[j].error]_vars

\* C23: a created job whose status is completed or failed carries a
\* completion timestamp.
C23_TerminalHasTimestamp ==
    \A j \in StoredIds :
        (store[j].ttl /\ store[j].status \in {"completed", "failed"}) => store[j].completed_at

\* C24: a job whose complete or error frame has been published is not left in
\* status queued.
C24_PublishedJobNotQueued ==
    \A job \in complete_published \cup error_published : store[job].status # "queued"

\* C25: in production the message of an error frame does not depend on the text
\* of the exception behind it: two exceptions at the same site give the same
\* message.
C25_GenericMessagesInProduction ==
    (ret.fn = "error_message" /\ arg.env # "development") => ret.m1 = ret.m2

\* C26: validate returns its verdict and never raises, whatever the source and
\* the language.
C26_ValidateFailsClosed ==
    ret.fn = "validate" => ret.outcome # "raises"

\* C29: whenever verify still accepts a token that has been redeemed, the
\* marker written at its redemption is present.
C29_MarkerOutlivesToken ==
    (marker_at >= 0 /\ decode_accepts(token_exp(minted_at), now)) =>
        marker_present(marker_at, now)

\* C30: cleaning an already cleaned chunk returns it unchanged.
C30_CleanIdempotent ==
    ret.fn = "clean_output" => ret.twice = ret.once

\* C27: a program that cannot be started is reported to the client with an
\* error frame, not with a complete frame.
C27_SpawnFailureReportsError ==
    \A job \in spawn_failed : job \notin complete_published

\* C28: a worker whose poll of the work list fails because the bus is down
\* stays in its loop (it backs off and polls again) unless it is stopped.
C28_PollFailureRetries ==
    [][\A w \in Workers : (wpc[w] = "poll" /\ ~bus_up) => wpc'[w] \in {"poll", "stopped"}]_vars

\* Every character is one of [A-Za-z0-9_.-], there is at least one, no "..",
\* no leading "/", and the length is at most 255.
WellFormedName(f) ==
    /\ Range(f.text) \subseteq NameClass
    /\ NameLen(f) >= 1
    /\ ~name_traverses(f)
    /\ NameLen(f) <= MaxFilenameLen

\* C31: a filename accepted by the submission model's check or by the
\* executor's check consists of characters of [A-Za-z0-9_.-] only, has no "..",
\* no leading "/", and is at most 255 long.
C31_AcceptedFilenameWellFormed ==
    ret.fn = "filename" => ((ret.submission \/ ret.executor) => WellFormedName(arg.name))

\* A worker publishes a frame for job in this step.
PublishedNow(job) ==
    \/ job \in (complete_published' \ complete_published)
    \/ job \in (error_published' \ error_published)
    \/ \E t \in publish_tasks \ publish_tasks' : t.job = job

\* C32: whenever a worker publishes a frame for the job of a session whose
\* client is connected and whose listen loop has not ended on a complete
\* frame, the session's subscription is in effect, so the frame is forwarded.
C32_SubscribedBeforePublish ==
    [][\A s \in Sessions :
         (PublishedNow(StoredId(s)) /\ pc[s] = "loop" /\ sub[s] # "closed")
             => sub[s] = "subscribed"]_vars

\* C34: the job id under which a session stores its record, registers its
\* connection, pushes its queue entry and names its channels is the job id its
\* token was minted for and verified against.
C34_OneJobIdPerSession ==
    \A s \in Sessions :
        pc[s] \in {"lpush", "loop"} => job_id[s] = data[s].job_token.job_id

\* C35: a session that ends before it created a job leaves the registry of
\* active connections unchanged.
C35_RejectedSessionLeavesRegistry ==
    [][\A s \in Sessions :
         (pc[s] \in {"await_first", "is_token_used", "mark_token_used"} /\ pc'[s] = "done")
             => active_connections' = active_connections]_vars

\* C36: a message waiting in the subscription of a session was published on a
\* channel of that session's job, and a keystroke on its way to the PTY of a
\* worker was sent by the client of the job that worker is running.
C36_JobIsolation ==
    /\ \A s \in Sessions :
        \A i \in DOMAIN inbox[s] : inbox[s][i].channel = StoredId(s)
    /\ \A w \in Workers :
        current_job[w] # NoEntry =>
            \A i \in DOMAIN InputPipeline(w) :
                StoredId(InputPipeline(w)[i].from) = current_job[w].job_id

\* Two jobs run at once, each has its client's keystroke on its PTY, and each
\* client has a frame of its job waiting.
C36_Witness ==
    /\ \A w \in Workers : wpc[w] = "run" /\ pty_written[w] # <<>>
    /\ \A s \in Sessions : inbox[s] # <<>>

\* execute_job has been entered for the entry of job and has been left: no
\* worker is still running it or publishing for it.
ExecuteJobLeft(job) ==
    /\ job \in Range(PoppedJobs)
    /\ \A w \in Workers :
        current_job[w].job_id = job =>
            (wpc[w] = "crashed" /\ entry_readable(current_job[w]))

\* C33: a job whose execute_job has been left has exactly one terminal frame
\* published, complete or error, and is counted in exactly one of
\* jobs_completed and jobs_failed.
C33_ExactlyOneTerminalFrame ==
    \A job \in StoredIds :
        ExecuteJobLeft(job) =>
            /\ (job \in complete_published) # (job \in error_published)
            /\ (job \in jobs_completed) # (job \in jobs_failed)


\* C37: when execute_job has finished for a job, by normal return or by
\* exception, the job's input listener and bridge have been cancelled and the
\* listener has unsubscribed: a worker that is back at the head of its loop,
\* or has left it, has no input task of a finished job.
C37_InputTasksCancelled ==
    \A w \in Workers :
        wpc[w] \in {"poll", "stopped"} => input_task[w] = "none"


\* The session has passed verify_job_token and the is_token_used check, and
\* mark_token_used has returned.
Redeemed(s) ==
    /\ token_used[s] = "no"
    /\ pc[s] \notin {"await_first", "is_token_used", "mark_token_used"}

C39_EveryRecordHasTTL ==
    \A j \in StoredIds : store[j] # NoRecord => store[j].ttl

====
